---- MODULE Spec2Model ----
(***************************************************************************)
(* A model of PublisherOpenAnime (src/src/index.ts, lines 188-407): the    *)
(* Electron Forge publisher that logs in to the release server, resolves   *)
(* or creates the release of every make-result and uploads its artifacts   *)
(* in chunks.                                                              *)
(*                                                                         *)
(* JavaScript strings are sequences of one-character strings, so that      *)
(* basename, toLowerCase, includes and replace are computed, not assumed.  *)
(* One action is one turn of the event loop: the code that runs from the   *)
(* arrival of a response (or from the call of publish) to the point where  *)
(* every continuation is waiting for a response again.  A "call" is one    *)
(* call of apiClient.post / apiClient.get; the retries axios-retry makes   *)
(* beneath it are part of that call.                                       *)
(***************************************************************************)
EXTENDS Integers, Sequences, FiniteSets, TLC

VARIABLES
    config,          \* this.config
    makeResults,     \* the makeResults publish() was called with
    fs,              \* the artifact files on disk: path -> [exists, size]
    pc,              \* where publish() is: init, login, list, create, upload, done
    cur,             \* index of the make-result the for loop is at (0: none yet)
    jwt,             \* the jwt destructured from the login response
    channel,         \* per make-result: const channel
    version,         \* per make-result: const version
    existingRelease, \* per make-result: {} (undefined) or {the release found}
    tasks,           \* per make-result: the async mappers of validArtifacts
    uploadedCount,   \* per make-result: let uploadedCount
    statusLines,     \* per make-result: the setStatusLine calls, in order
    loginReqs,       \* the POST /login calls issued
    loginResponse,   \* how POST /login settled: none yet, rejected, null, nojwt, jwt
    listReqs,        \* per make-result: the GET /releases calls issued
    createReqs,      \* per make-result: the POST /releases calls issued
    listed,          \* per make-result: the bodies GET /releases answered with, kept in
                     \* the runs that observe them
    logged           \* the logger.error / logger.success lines of publish, its mappers and createRelease

vars == <<config, makeResults, fs, pc, cur, jwt, channel, version, existingRelease,
          tasks, uploadedCount, statusLines, loginReqs, loginResponse, listReqs, createReqs,
          listed, logged>>

inputs == <<config, makeResults, fs>>

----------------------------------------------------------------------------
(* Strings *)

\* The JavaScript value undefined; no string of characters equals it.
Undefined == <<"<undefined>">>

\* String(x), as a template literal converts x.
TemplateString(x) == IF x = Undefined THEN <<"u","n","d","e","f","i","n","e","d">> ELSE x

\* The letters toLowerCase changes, each with its lower-case letter: the strings of the
\* model are written in Basic Latin and Latin-1.
LowerOf ==
    ("A" :> "a") @@ ("B" :> "b") @@ ("C" :> "c") @@ ("D" :> "d") @@ ("E" :> "e") @@
    ("F" :> "f") @@ ("G" :> "g") @@ ("H" :> "h") @@ ("I" :> "i") @@ ("J" :> "j") @@
    ("K" :> "k") @@ ("L" :> "l") @@ ("M" :> "m") @@ ("N" :> "n") @@ ("O" :> "o") @@
    ("P" :> "p") @@ ("Q" :> "q") @@ ("R" :> "r") @@ ("S" :> "s") @@ ("T" :> "t") @@
    ("U" :> "u") @@ ("V" :> "v") @@ ("W" :> "w") @@ ("X" :> "x") @@ ("Y" :> "y") @@
    ("Z" :> "z") @@
    ("À" :> "à") @@ ("Á" :> "á") @@ ("Â" :> "â") @@ ("Ã" :> "ã") @@ ("Ä" :> "ä") @@
    ("Å" :> "å") @@ ("Æ" :> "æ") @@ ("Ç" :> "ç") @@ ("È" :> "è") @@ ("É" :> "é") @@
    ("Ê" :> "ê") @@ ("Ë" :> "ë") @@ ("Ì" :> "ì") @@ ("Í" :> "í") @@ ("Î" :> "î") @@
    ("Ï" :> "ï") @@ ("Ð" :> "ð") @@ ("Ñ" :> "ñ") @@ ("Ò" :> "ò") @@ ("Ó" :> "ó") @@
    ("Ô" :> "ô") @@ ("Õ" :> "õ") @@ ("Ö" :> "ö") @@ ("Ø" :> "ø") @@ ("Ù" :> "ù") @@
    ("Ú" :> "ú") @@ ("Û" :> "û") @@ ("Ü" :> "ü") @@ ("Ý" :> "ý") @@ ("Þ" :> "þ")

\* String.prototype.toLowerCase
ToLowerCase(s) ==
    [k \in 1..Len(s) |-> IF s[k] \in DOMAIN LowerOf THEN LowerOf[s[k]] ELSE s[k]]

\* The 1-based positions at which sub occurs in s.
Occurrences(s, sub) ==
    {p \in 1..(Len(s) - Len(sub) + 1) : SubSeq(s, p, p + Len(sub) - 1) = sub}

\* String.prototype.includes
Includes(s, sub) == Occurrences(s, sub) /= {}

Min(S) == CHOOSE x \in S : \A y \in S : x <= y

\* String.prototype.replace with a string pattern: the first occurrence only.
ReplaceFirst(s, pat, rep) ==
    IF Occurrences(s, pat) = {} THEN s
    ELSE LET p == Min(Occurrences(s, pat))
         IN  SubSeq(s, 1, p - 1) \o rep \o SubSeq(s, p + Len(pat), Len(s))

\* path without the "/" that end it
RECURSIVE StripSeparators(_)
StripSeparators(path) ==
    IF path /= <<>> /\ path[Len(path)] = "/" THEN StripSeparators(SubSeq(path, 1, Len(path) - 1))
    ELSE path

\* basename of node:path (POSIX): trailing "/" are dropped, and what follows the last
\* "/" of the rest is returned; "" for a path of "/" only.
Basename(path) ==
    LET name    == StripSeparators(path)
        slashes == {p \in 1..Len(name) : name[p] = "/"}
    IN  IF slashes = {} THEN name
        ELSE SubSeq(name, (CHOOSE p \in slashes : \A q \in slashes : q <= p) + 1, Len(name))

\* Math.ceil(a / b) for a >= 0, b > 0
CeilDiv(a, b) == (a + b - 1) \div b

\* The values totalChunks can take: an integer, Infinity or NaN.
Finite(k) == [nan |-> FALSE, inf |-> FALSE, n |-> k]

Infinity == [nan |-> FALSE, inf |-> TRUE, n |-> 0]

NaN == [nan |-> TRUE, inf |-> FALSE, n |-> 0]

----------------------------------------------------------------------------
(* Names of the program *)

Stable == <<"s","t","a","b","l","e">>
Beta   == <<"b","e","t","a">>
Alpha  == <<"a","l","p","h","a">>
Rc     == <<"r","c">>

\* the array literal of extractChannel
ChannelNames == <<Stable, Beta, Alpha, Rc>>

\* the file name the artifact filter compares with
ReservedName == <<"r","e","l","e","a","s","e","s">>

ChangeLog == "Electron Forge Release"

\* chunkSizeInMb: chunkSizeMb = 10
DefaultChunkSizeMb == 10

BytesPerMb == 1024 * 1024

----------------------------------------------------------------------------
(* The pure methods *)

\* Array.prototype.find: the index of the first element satisfying Test, 0 if none.
FindIndex(seq, Test(_)) ==
    IF \E k \in 1..Len(seq) : Test(seq[k])
    THEN Min({k \in 1..Len(seq) : Test(seq[k])})
    ELSE 0

\* extractChannel(version)
extractChannel(v) ==
    LET Hit(c) == Includes(v, c)
        k == FindIndex(ChannelNames, Hit)
    IN  IF k = 0 THEN Undefined ELSE ChannelNames[k]

\* Faulty variant: the suffix of the stable channel is left in place.
extractVersionKeepStable(v, ch) ==
    IF ch = Stable THEN v ELSE ReplaceFirst(v, <<"-">> \o TemplateString(ch), <<>>)

\* extractVersion(version, channel)
extractVersion(v, ch) == ReplaceFirst(v, <<"-">> \o TemplateString(ch), <<>>)

\* configuredChannel ?? this.extractChannel(packageJSON.version)
ResolveChannel(cfg, v) ==
    IF cfg.channel /= Undefined THEN cfg.channel ELSE extractChannel(v)

\* Faulty variant: the base name is compared without toLowerCase().
IsValidArtifactCaseSensitive(artifactPath) == Basename(artifactPath) /= ReservedName

\* the predicate of artifacts.filter
IsValidArtifact(artifactPath) == ToLowerCase(Basename(artifactPath)) /= ReservedName

\* const validArtifacts
ValidArtifacts(artifacts) == SelectSeq(artifacts, IsValidArtifact)

\* Faulty variant: the releases are compared on the version alone.
FindReleaseVersionOnly(releases, v, ch) ==
    LET Match(r) == r.version = v
        k == FindIndex(releases, Match)
    IN  IF k = 0 THEN {} ELSE {releases[k]}

\* releases.find(release => release.version === version && release.channel === channel),
\* as {} (undefined) or {the first release that matches}
FindRelease(releases, v, ch) ==
    LET Match(r) == r.version = v /\ r.channel = ch
        k == FindIndex(releases, Match)
    IN  IF k = 0 THEN {} ELSE {releases[k]}

\* Faulty variant: only the first asset of the release is compared.
doesAssetExistFirstOnly(release, fileName, platform) ==
    /\ release.assets /= <<>>
    /\ release.assets[1].name = fileName
    /\ release.assets[1].platform = platform

\* doesAssetExist(existingRelease, fileName, platform)
doesAssetExist(release, fileName, platform) ==
    \E k \in 1..Len(release.assets) :
        release.assets[k].name = fileName /\ release.assets[k].platform = platform

\* existingRelease && this.doesAssetExist(existingRelease, fileName, platform)
AlreadyUploaded(existing, fileName, platform) ==
    \E r \in existing : doesAssetExist(r, fileName, platform)

\* chunkSizeInMb: chunkSizeMb = 10
ChunkSizeMb(cfg) ==
    IF cfg.chunkSizeInMb = {} THEN DefaultChunkSizeMb
    ELSE CHOOSE n \in cfg.chunkSizeInMb : TRUE

\* const fileChunkSize
FileChunkSize(chunkSizeMb) == chunkSizeMb * BytesPerMb

\* Faulty variant: an empty file is sent as one empty chunk.
TotalChunksAtLeastOne(size, fileChunkSize) ==
    Finite(IF size = 0 THEN 1 ELSE CeilDiv(size, fileChunkSize))

\* Faulty variant: Math.floor in place of Math.ceil.
TotalChunksFloor(size, fileChunkSize) == Finite(size \div fileChunkSize)

\* const totalChunks: Math.ceil of the quotient, which is Infinity for a division of a
\* positive size by zero, NaN for 0 / 0, and for a negative chunk size the quotient
\* rounded towards zero (-0 is shown and compared as 0)
TotalChunks(size, fileChunkSize) ==
    IF fileChunkSize = 0 THEN (IF size = 0 THEN NaN ELSE Infinity)
    ELSE IF fileChunkSize < 0 THEN Finite(0 - (size \div (0 - fileChunkSize)))
    ELSE Finite(CeilDiv(size, fileChunkSize))

\* i < totalChunks, for i a non-negative integer
LessThan(i, x) == x.inf \/ (~x.nan /\ i < x.n)

\* Faulty variant: the buffer is not cut down to the bytes read.
BytesReadWholeBuffer(size, fileChunkSize, i) == fileChunkSize

\* bytesRead of readSync(fd, buffer, {length: fileChunkSize, position: i * fileChunkSize})
\* on a file of the given size
BytesRead(size, fileChunkSize, i) ==
    IF size - i * fileChunkSize >= fileChunkSize THEN fileChunkSize
    ELSE IF size - i * fileChunkSize > 0 THEN size - i * fileChunkSize
    ELSE 0

\* Faulty variant: the run is refused only when all three options are missing.
MissingConfigAll(cfg) ==
    LET Falsy(x) == x = Undefined \/ x = <<>>
    IN  Falsy(cfg.baseUrl) /\ Falsy(cfg.username) /\ Falsy(cfg.password)

\* !baseUrl || !username || !password
MissingConfig(cfg) ==
    LET Falsy(x) == x = Undefined \/ x = <<>>
    IN  Falsy(cfg.baseUrl) \/ Falsy(cfg.username) \/ Falsy(cfg.password)

Digits == <<"0","1","2","3","4","5","6","7","8","9">>

\* Number.prototype.toString of a non-negative integer, and its conversion in a template
RECURSIVE Decimal(_)
Decimal(n) ==
    IF n < 10 THEN <<Digits[n + 1]>>
    ELSE Decimal(n \div 10) \o <<Digits[(n % 10) + 1]>>

\* Number.prototype.toString of totalChunks
NumberString(x) ==
    IF x.inf THEN <<"I","n","f","i","n","i","t","y">>
    ELSE IF x.nan THEN <<"N","a","N">>
    ELSE IF x.n < 0 THEN <<"-">> \o Decimal(0 - x.n)
    ELSE Decimal(x.n)

StatusPrefix ==
    <<"U","p","l","o","a","d","i","n","g"," ","a","r","t","i","f","a","c","t"," ","(">>

\* `Uploading artifact (${++uploadedCount}/${validArtifacts.length})`, k the incremented count
StatusLine(k, n) == StatusPrefix \o Decimal(k) \o <<"/">> \o Decimal(n) \o <<")">>

----------------------------------------------------------------------------
(* uploadAsset and the async mapper of one artifact *)

\* No Authorization header on the request.
NoHeader == <<"<no header>">>

\* What the closure of one make-result's mappers holds.
Context(m) ==
    [channel       |-> channel[m],
     version       |-> version[m],
     platform      |-> makeResults[m].platform,
     jwt           |-> jwt,
     fileChunkSize |-> FileChunkSize(ChunkSizeMb(config))]

\* Faulty variant: the file is appended to the form with no name, and goes as "blob".
ChunkRequestNoName(ctx, t, i) ==
    [channel      |-> ctx.channel,
     version      |-> ctx.version,
     currentChunk |-> Decimal(i + 1),
     totalChunks  |-> NumberString(t.totalChunks),
     platform     |-> ctx.platform,
     fileName     |-> <<"b","l","o","b">>,
     bytes        |-> BytesRead(t.size, ctx.fileChunkSize, i),
     auth         |-> ctx.jwt]

\* Faulty variant: the chunk POST is sent without the headers option.
ChunkRequestNoAuth(ctx, t, i) ==
    [channel      |-> ctx.channel,
     version      |-> ctx.version,
     currentChunk |-> Decimal(i + 1),
     totalChunks  |-> NumberString(t.totalChunks),
     platform     |-> ctx.platform,
     fileName     |-> t.fileName,
     bytes        |-> BytesRead(t.size, ctx.fileChunkSize, i),
     auth         |-> NoHeader]

\* The POST of chunk i (0-based) of the file of task t: the form data, url and headers.
ChunkRequest(ctx, t, i) ==
    [channel      |-> ctx.channel,
     version      |-> ctx.version,
     currentChunk |-> Decimal(i + 1),
     totalChunks  |-> NumberString(t.totalChunks),
     platform     |-> ctx.platform,
     fileName     |-> t.fileName,
     bytes        |-> BytesRead(t.size, ctx.fileChunkSize, i),
     auth         |-> ctx.jwt]

\* Faulty variant: the POST is not awaited; every remaining chunk is posted in the same turn.
RECURSIVE UploadLoopNoAwait(_, _, _)
UploadLoopNoAwait(ctx, t, i) ==
    IF i < t.totalChunks.n
    THEN UploadLoopNoAwait(ctx,
                           [t EXCEPT !.st = "posting", !.i = i,
                                     !.sent = Append(t.sent, ChunkRequest(ctx, t, i)),
                                     !.inflight = t.inflight \cup {i + 1}],
                           i + 1)
    ELSE [t EXCEPT !.st = "succeeded", !.i = i]

\* One iteration of the for loop of uploadAsset, from its top to the await of the POST;
\* past the last chunk, return true.
UploadLoop(ctx, t, i) ==
    IF LessThan(i, t.totalChunks)
    THEN [t EXCEPT !.st = "posting", !.i = i,
                   !.sent = Append(t.sent, ChunkRequest(ctx, t, i)),
                   !.inflight = t.inflight \cup {i + 1}]
    ELSE [t EXCEPT !.st = "succeeded", !.i = i]

\* The mapper of one artifact from its call to its first await (or to its end).
StartTask(ctx, file, artifactPath, existing) ==
    LET fileName == Basename(artifactPath)
        t0 == [path |-> artifactPath, fileName |-> fileName, st |-> "new", size |-> 0,
               totalChunks |-> Finite(0), i |-> 0, sent |-> <<>>, inflight |-> {}, outcomes |-> <<>>,
               reported |-> 0]
    IN  IF AlreadyUploaded(existing, fileName, ctx.platform)
        THEN [t0 EXCEPT !.st = "skipped"]
        ELSE IF ~file.exists
        THEN [t0 EXCEPT !.st = "threw"]
        ELSE UploadLoop(ctx,
                        [t0 EXCEPT !.size = file.size,
                                   !.totalChunks = TotalChunks(file.size, ctx.fileChunkSize)],
                        0)

\* Faulty variant: a failed POST is logged and the loop goes on to the next chunk.
ResumeTaskGoesOn(ctx, t, ok) ==
    UploadLoop(ctx, [t EXCEPT !.inflight = @ \ {t.i + 1}, !.outcomes = Append(@, ok)], t.i + 1)

\* uploadAsset from the settling of the POST in flight to its next await (or to its return).
ResumeTask(ctx, t, ok) ==
    LET settled == [t EXCEPT !.inflight = @ \ {t.i + 1}, !.outcomes = Append(@, ok)]
    IN  IF ok THEN UploadLoop(ctx, settled, t.i + 1)
        ELSE [settled EXCEPT !.st = "failed"]

\* The mapper has run to its end and has called updateStatus.
Completed(t) == t.st \in {"skipped", "succeeded", "failed"}

\* The mapper's promise is settled: it has completed, or it has rejected.
Settled(t) == Completed(t) \/ t.st = "threw"

\* Faulty variant: the increment is lost.
UpdateStatusLost(count) == count

\* updateStatus(): the count after ++uploadedCount
UpdateStatus(count) == count + 1

\* The setStatusLine calls of k updateStatus() calls made in a row from count c.
RECURSIVE StatusCalls(_, _, _)
StatusCalls(c, k, n) ==
    IF k = 0 THEN <<>>
    ELSE <<StatusLine(UpdateStatus(c), n)>> \o StatusCalls(UpdateStatus(c), k - 1, n)

RECURSIVE CountAfter(_, _)
CountAfter(c, k) == IF k = 0 THEN c ELSE CountAfter(UpdateStatus(c), k - 1)

----------------------------------------------------------------------------
(* The inputs: configuration, make-results, files, server responses *)

MaxMakeResults == 2   \* make-results of one publish call
MaxArtifacts   == 2   \* artifacts of one make-result
MaxFileMb      == 1   \* file sizes reach MaxFileMb MiB and one byte
MaxEndlessPosts == 3  \* chunk POSTs followed of an upload that has no last chunk

AppZip       == <<"a","p","p",".","z","i","p">>
AppExe       == <<"a","p","p",".","e","x","e">>
ReleasesFile == <<"R","E","L","E","A","S","E","S">>
OutDir       == <<"o","u","t","/">>

ArtifactPaths == {OutDir \o AppZip, OutDir \o AppExe, OutDir \o ReleasesFile}

V100     == <<"1",".","0",".","0">>
V100Beta == V100 \o <<"-">> \o Beta

VersionStrings == {V100, V100Beta}
Platforms      == {"win32"}
AssetPlatforms == {"win32", "linux"}

Token == <<"j","w","t","-","1">>

CredentialValues == {Undefined, <<>>, <<"x">>}

ConfigsWith(channels, chunkSizes) ==
    [baseUrl : CredentialValues, username : CredentialValues, password : CredentialValues,
     channel : channels, chunkSizeInMb : chunkSizes]

\* channel left out or rc; chunkSizeInMb left out (the default applies) or 1
Configs == ConfigsWith({Undefined, Rc}, {{}, {1}})

\* empty, whole MiBs, and one byte past the largest
FileSizes == {0} \cup {k * BytesPerMb : k \in 1..MaxFileMb} \cup {MaxFileMb * BytesPerMb + 1}

Missing == [exists |-> FALSE, size |-> 0]

FileStates == [exists : {TRUE}, size : FileSizes] \cup {Missing}

IsInjective(seq) == \A a, b \in 1..Len(seq) : seq[a] = seq[b] => a = b

ArtifactListsOf(paths, n) ==
    {as \in UNION {[1..k -> paths] : k \in 0..n} : IsInjective(as)}

MakeResultsOf(versions, paths, n) ==
    [packageJSON : [version : versions], platform : Platforms,
     artifacts : ArtifactListsOf(paths, n)]

\* The make-results of one run are made from one package.json: they carry one version.
MakeResultListsOf(universe, n) ==
    {mrs \in UNION {[1..k -> universe] : k \in 0..n} :
        \A a, b \in 1..Len(mrs) : mrs[a].packageJSON = mrs[b].packageJSON}

\* publish calls with at most one make-result
MakeResultLists ==
    {mrs \in MakeResultListsOf(MakeResultsOf(VersionStrings, ArtifactPaths, MaxArtifacts),
                               MaxMakeResults) : Len(mrs) <= 1}

PathsOf(mrs) ==
    UNION {{mrs[m].artifacts[j] : j \in 1..Len(mrs[m].artifacts)} : m \in 1..Len(mrs)}

V101 == <<"1",".","0",".","1">>

Assets == [name : {AppZip}, platform : AssetPlatforms]

\* the asset lists of a release: none, one asset, or the one of the other platform first
AssetLists ==
    {<<>>} \cup {<<a>> : a \in Assets}
           \cup {<<[name |-> AppZip, platform |-> "linux"], [name |-> AppZip, platform |-> "win32"]>>}

ReleaseUniverse ==
    [version : {V100}, channel : {Beta}, assets : AssetLists]
        \cup [version : {V100, V101}, channel : {Stable, Beta}, assets : {<<>>}]

\* the bodies GET /releases may answer with: no release, one, or two
ReleaseLists ==
    {<<>>} \cup {<<r>> : r \in ReleaseUniverse}
           \cup {<<r, q>> : r \in ReleaseUniverse, q \in ReleaseUniverse}

\* the bodies POST /login may answer with: null, an object without jwt, an object with jwt
LoginBodies ==
    {[isNull |-> TRUE, jwt |-> Undefined], [isNull |-> FALSE, jwt |-> Undefined],
     [isNull |-> FALSE, jwt |-> Token]}

\* how POST /releases may settle: rejected (transport error or a status axios rejects),
\* or fulfilled with a 2xx status
CreateOutcomes ==
    {[rejected |-> TRUE, status |-> 500], [rejected |-> FALSE, status |-> 200],
     [rejected |-> FALSE, status |-> 201]}

\* A line of the log: its level, the make-result it was written for (0: none), its text
\* and what the template of the text was filled with.
MissingConfigError == [level |-> "error", mr |-> 0, arg |-> <<>>,
                       msg |-> "Missing required configuration options for release server"]
InvalidCredentialsError == [level |-> "error", mr |-> 0, arg |-> <<>>,
                            msg |-> "Invalid credentials for release server"]
CreateFailedError(m) == [level |-> "error", mr |-> m, arg |-> <<>>,
                         msg |-> "Failed to create release on the server"]
CreatedSuccess(m) == [level |-> "success", mr |-> m, arg |-> TemplateString(version[m]),
                      msg |-> "Release ${version} created successfully"]
AssetUploaded(m, fileName) == [level |-> "success", mr |-> m, arg |-> fileName,
                               msg |-> "Asset ${fileName} uploaded successfully"]
AssetFailed(m, fileName) == [level |-> "error", mr |-> m, arg |-> fileName,
                             msg |-> "Failed to upload asset ${fileName}"]

\* What the mapper of make-result m logs when uploadAsset has returned for task t.
MapperLog(m, t) ==
    IF t.st = "succeeded" THEN {AssetUploaded(m, t.fileName)}
    ELSE IF t.st = "failed" THEN {AssetFailed(m, t.fileName)}
    ELSE {}

----------------------------------------------------------------------------
(* publish *)

InitWith(configs) ==
    /\ config \in configs
    /\ makeResults = <<>>
    /\ fs = <<>>
    /\ pc = "init"
    /\ cur = 0
    /\ jwt = Undefined
    /\ channel = <<>>
    /\ version = <<>>
    /\ existingRelease = <<>>
    /\ tasks = <<>>
    /\ uploadedCount = <<>>
    /\ statusLines = <<>>
    /\ loginReqs = <<>>
    /\ loginResponse = "none"
    /\ listReqs = <<>>
    /\ createReqs = <<>>
    /\ listed = <<>>
    /\ logged = {}

Init == InitWith(Configs)

\* The top of one iteration of the for loop, to the await of GET /releases.
BeginMakeResult(m) ==
    LET v  == makeResults[m].packageJSON.version
        ch == ResolveChannel(config, v)
    IN  /\ pc' = "list"
        /\ cur' = m
        /\ channel' = [channel EXCEPT ![m] = ch]
        /\ version' = [version EXCEPT ![m] = extractVersion(v, ch)]
        /\ listReqs' = [listReqs EXCEPT ![m] = Append(@, [auth |-> NoHeader])]

\* publish() stays at, or moves to, position p without starting an iteration.
Stay(p) ==
    /\ pc' = p
    /\ UNCHANGED <<cur, channel, version, listReqs>>

\* Promise.all of make-result m has fulfilled: the next iteration, or the end of the loop.
Advance(m) ==
    IF m < Len(makeResults) THEN BeginMakeResult(m + 1) ELSE Stay("done")

\* Faulty variant: Promise.race in place of Promise.all.
JoinReadyAny(m, ts) == ts = <<>> \/ \E j \in 1..Len(ts) : Settled(ts[j])

\* await Promise.all(...) of make-result m lets publish() go on
JoinReady(m, ts) == \A j \in 1..Len(ts) : Settled(ts[j])

\* The task after its mapper has run a turn: updateStatus() was called if it completed.
Reported(before, after) ==
    IF Completed(after) /\ ~Completed(before) THEN [after EXCEPT !.reported = @ + 1] ELSE after

\* validArtifacts.map(async ...): every mapper runs to its first await; a mapper that
\* ends at once has called updateStatus().
RECURSIVE StartAll(_, _, _)
StartAll(ctx, valid, existing) ==
    IF valid = <<>> THEN <<>>
    ELSE LET t == StartTask(ctx, fs[Head(valid)], Head(valid), existing)
         IN  <<Reported([t EXCEPT !.st = "new"], t)>> \o StartAll(ctx, Tail(valid), existing)

\* validArtifacts.map(async ...) and await Promise.all(...), in the turn that starts them.
FanOut(m, existing, lg) ==
    LET valid == ValidArtifacts(makeResults[m].artifacts)
        ts    == StartAll(Context(m), valid, existing)
        k     == Cardinality({j \in 1..Len(ts) : Completed(ts[j])})
        lgs   == lg \cup UNION {MapperLog(m, ts[j]) : j \in 1..Len(ts)}
    IN  /\ tasks' = [tasks EXCEPT ![m] = ts]
        /\ uploadedCount' = [uploadedCount EXCEPT ![m] = CountAfter(@, k)]
        /\ statusLines' = [statusLines EXCEPT
                             ![m] = @ \o StatusCalls(uploadedCount[m], k, Len(valid))]
        /\ IF \E j \in 1..Len(ts) : ts[j].st = "threw"
           THEN Stay("done") /\ logged' = lgs \cup {InvalidCredentialsError}
           ELSE /\ logged' = lgs
                /\ IF JoinReady(m, ts) THEN Advance(m) ELSE Stay("upload")

\* publish() with a configuration the guard rejects; makeResults is not read.
PublishMissingConfig ==
    /\ pc = "init"
    /\ MissingConfig(config)
    /\ pc' = "done"
    /\ logged' = logged \cup {MissingConfigError}
    /\ UNCHANGED <<inputs, listed, cur, jwt, channel, version, existingRelease, tasks,
                   uploadedCount, statusLines, loginReqs, loginResponse, listReqs,
                   createReqs>>

\* publish({makeResults}) to the await of POST /login, the files of the artifacts on disk.
PublishLogin(mrLists, fileStates) ==
    /\ pc = "init"
    /\ ~MissingConfig(config)
    /\ \E mrs \in mrLists : \E files \in [PathsOf(mrs) -> fileStates] :
        /\ makeResults' = mrs
        /\ fs' = files
        /\ channel' = [m \in 1..Len(mrs) |-> Undefined]
        /\ version' = [m \in 1..Len(mrs) |-> Undefined]
        /\ existingRelease' = [m \in 1..Len(mrs) |-> {}]
        /\ tasks' = [m \in 1..Len(mrs) |-> <<>>]
        /\ uploadedCount' = [m \in 1..Len(mrs) |-> 0]
        /\ statusLines' = [m \in 1..Len(mrs) |-> <<>>]
        /\ listReqs' = [m \in 1..Len(mrs) |-> <<>>]
        /\ createReqs' = [m \in 1..Len(mrs) |-> <<>>]
        /\ listed' = [m \in 1..Len(mrs) |-> <<>>]
    /\ loginReqs' = Append(loginReqs, [username |-> config.username, password |-> config.password])
    /\ pc' = "login"
    /\ UNCHANGED <<config, cur, jwt, loginResponse, logged>>

\* Faulty variant: the rejection of POST /login is logged and the for loop runs all the same.
LoginFailsSwallowed ==
    /\ pc = "login"
    /\ loginResponse' = "rejected"
    /\ logged' = logged \cup {InvalidCredentialsError}
    /\ Advance(0)
    /\ UNCHANGED <<inputs, listed, jwt, existingRelease, tasks, uploadedCount, statusLines,
                   loginReqs, createReqs>>

\* POST /login rejects: the catch of publish().
LoginFails ==
    /\ pc = "login"
    /\ loginResponse' = "rejected"
    /\ logged' = logged \cup {InvalidCredentialsError}
    /\ Stay("done")
    /\ UNCHANGED <<inputs, listed, jwt, existingRelease, tasks, uploadedCount, statusLines,
                   loginReqs, createReqs>>

\* POST /login fulfils with a body: const {data: {jwt}}, then the for loop.
LoginReturns ==
    /\ pc = "login"
    /\ \E body \in LoginBodies :
        IF body.isNull
        THEN /\ loginResponse' = "null"
             /\ logged' = logged \cup {InvalidCredentialsError}
             /\ Stay("done")
             /\ UNCHANGED jwt
        ELSE /\ loginResponse' = (IF body.jwt = Undefined THEN "nojwt" ELSE "jwt")
             /\ jwt' = body.jwt
             /\ logged' = logged
             /\ Advance(0)
    /\ UNCHANGED <<inputs, listed, existingRelease, tasks, uploadedCount, statusLines,
                   loginReqs, createReqs>>

\* GET /releases rejects: the catch of publish().
ListFails ==
    /\ pc = "list"
    /\ Stay("done")
    /\ logged' = logged \cup {InvalidCredentialsError}
    /\ UNCHANGED <<inputs, listed, jwt, existingRelease, tasks, uploadedCount, statusLines,
                   loginReqs, loginResponse, createReqs>>

\* POST /releases of createRelease, to its await.
CreateRequest(m) ==
    [version |-> version[m], channel |-> channel[m], changeLog |-> ChangeLog, auth |-> jwt]

\* GET /releases fulfils: releases.find, then createRelease or the uploads.  With keep
\* the body is kept in listed; without it one body stands for all that find the same.
ListReturnsKeeping(keep) ==
    /\ pc = "list"
    /\ LET Found(body) == FindRelease(body, version[cur], channel[cur])
           bodies == IF keep THEN ReleaseLists
                     ELSE {CHOOSE body \in ReleaseLists : Found(body) = f :
                              f \in {Found(body) : body \in ReleaseLists}}
       IN  \E releases \in bodies :
            LET found == Found(releases)
            IN  /\ existingRelease' = [existingRelease EXCEPT ![cur] = found]
                /\ listed' = IF keep THEN [listed EXCEPT ![cur] = Append(@, releases)]
                             ELSE listed
                /\ IF found = {}
                   THEN /\ createReqs' = [createReqs EXCEPT
                                             ![cur] = Append(@, CreateRequest(cur))]
                        /\ Stay("create")
                        /\ UNCHANGED <<tasks, uploadedCount, statusLines, logged>>
                   ELSE /\ FanOut(cur, found, logged)
                        /\ UNCHANGED createReqs
    /\ UNCHANGED <<inputs, jwt, loginReqs, loginResponse>>

ListReturns == ListReturnsKeeping(FALSE)

\* What createRelease logs for the way its POST settled.
CreateLog(m, outcome) ==
    IF ~outcome.rejected /\ outcome.status = 201 THEN CreatedSuccess(m) ELSE CreateFailedError(m)

\* Faulty variant: createRelease rethrows, and the catch of publish() ends the run.
CreateSettlesAborts ==
    /\ pc = "create"
    /\ \E outcome \in CreateOutcomes :
        IF CreateLog(cur, outcome) = CreatedSuccess(cur)
        THEN FanOut(cur, existingRelease[cur], logged \cup {CreatedSuccess(cur)})
        ELSE /\ logged' = logged \cup {CreateFailedError(cur)}
             /\ Stay("done")
             /\ UNCHANGED <<tasks, uploadedCount, statusLines>>
    /\ UNCHANGED <<inputs, listed, jwt, existingRelease, loginReqs, loginResponse, createReqs>>

\* POST /releases settles: createRelease logs and returns, then the uploads.
CreateSettles ==
    /\ pc = "create"
    /\ \E outcome \in CreateOutcomes :
        FanOut(cur, existingRelease[cur], logged \cup {CreateLog(cur, outcome)})
    /\ UNCHANGED <<inputs, listed, jwt, existingRelease, loginReqs, loginResponse, createReqs>>

\* The POST of a chunk of task j of make-result m settles: uploadAsset goes on to its next
\* await or returns, the mapper reports, and Promise.all lets publish() go on if it was
\* the last.
ChunkSettles(m, j, ok) ==
    /\ tasks[m][j].st = "posting"
    /\ (ok /\ tasks[m][j].totalChunks = Infinity) => Len(tasks[m][j].sent) < MaxEndlessPosts
    /\ LET t  == Reported(tasks[m][j], ResumeTask(Context(m), tasks[m][j], ok))
           ts == [tasks[m] EXCEPT ![j] = t]
           k  == IF Completed(t) THEN 1 ELSE 0
       IN  /\ tasks' = [tasks EXCEPT ![m] = ts]
           /\ uploadedCount' = [uploadedCount EXCEPT ![m] = CountAfter(@, k)]
           /\ statusLines' = [statusLines EXCEPT
                                ![m] = @ \o StatusCalls(uploadedCount[m], k, Len(ts))]
           /\ logged' = logged \cup MapperLog(m, t)
           /\ IF pc = "upload" /\ cur = m /\ JoinReady(m, ts) THEN Advance(m) ELSE Stay(pc)
    /\ UNCHANGED <<inputs, listed, jwt, existingRelease, loginReqs, loginResponse, createReqs>>

ChunkSucceeds == \E m \in 1..Len(tasks) : \E j \in 1..Len(tasks[m]) : ChunkSettles(m, j, TRUE)

ChunkFails == \E m \in 1..Len(tasks) : \E j \in 1..Len(tasks[m]) : ChunkSettles(m, j, FALSE)

\* Every action but the call of publish with a usable configuration.
Settle ==
    \/ PublishMissingConfig
    \/ LoginFails
    \/ LoginReturns
    \/ ListFails
    \/ ListReturns
    \/ CreateSettles
    \/ ChunkSucceeds
    \/ ChunkFails

Publish == PublishLogin(MakeResultLists, FileStates)

Next == Publish \/ Settle

Spec == Init /\ [][Next]_vars

----------------------------------------------------------------------------
(* Runs of several make-results: channel rc configured, chunks of 1 MiB, files of two  *)
(* chunks or missing                                                                  *)

SeqConfigs == ConfigsWith({Rc}, {{1}})

RECURSIVE SumLen(_)
SumLen(mrs) == IF mrs = <<>> THEN 0 ELSE Len(Head(mrs).artifacts) + SumLen(Tail(mrs))

\* at most MaxArtifacts artifacts over the make-results of the run
SeqMakeResultLists ==
    {mrs \in MakeResultListsOf(MakeResultsOf({V100},
                                             {OutDir \o AppZip, OutDir \o AppExe},
                                             MaxArtifacts),
                               MaxMakeResults) : SumLen(mrs) <= MaxArtifacts}

SeqFileStates == {[exists |-> TRUE, size |-> BytesPerMb + 1], Missing}

InitSeq == InitWith(SeqConfigs)

PublishSeq == PublishLogin(SeqMakeResultLists, SeqFileStates)

NextSeq == PublishSeq \/ Settle

SpecSeq == InitSeq /\ [][NextSeq]_vars

----------------------------------------------------------------------------
(* Runs of one make-result with one artifact: file sizes around the multiples of the *)
(* chunk sizes, chunks of 1, 2 or (by default) 10 MiB                              *)

ChunkConfigs == ConfigsWith({Undefined}, {{}, {1}, {2}})

ChunkFileSizes ==
    {s \in {k * BytesPerMb + d : k \in 0..(MaxFileMb + 2), d \in {-1, 0, 1}} : s >= 0}
        \cup {DefaultChunkSizeMb * BytesPerMb + d : d \in {-1, 0, 1}}
        \cup {25 * BytesPerMb}

ChunkFileStates == [exists : {TRUE}, size : ChunkFileSizes] \cup {Missing}

ChunkMakeResultLists ==
    {mrs \in MakeResultListsOf(MakeResultsOf({V100Beta}, {OutDir \o AppZip}, MaxArtifacts),
                               MaxMakeResults) : Len(mrs) <= 1}

InitChunks == InitWith(ChunkConfigs)

PublishChunks == PublishLogin(ChunkMakeResultLists, ChunkFileStates)

NextChunks == PublishChunks \/ Settle

SpecChunks == InitChunks /\ [][NextChunks]_vars

----------------------------------------------------------------------------
(* Runs of one make-result over many version strings: 1.2.3 followed by up to          *)
(* MaxSuffixes suffixes, with every channel configured or none                         *)

MaxSuffixes == 2

V123 == <<"1",".","2",".","3">>

\* -stable, -beta, -alpha, -rc, and rc with no dash before it
Suffixes == {<<"-">> \o c : c \in {Stable, Beta, Alpha, Rc}} \cup {Rc}

RECURSIVE Concat(_)
Concat(parts) == IF parts = <<>> THEN <<>> ELSE Head(parts) \o Concat(Tail(parts))

VersionInputs == {V123 \o Concat(parts) : parts \in UNION {[1..k -> Suffixes] : k \in 0..MaxSuffixes}}

VersionConfigs == ConfigsWith({Undefined, Stable, Beta, Alpha, Rc}, {{1}})

VersionMakeResultLists ==
    {<<mr>> : mr \in [packageJSON : [version : VersionInputs], platform : Platforms,
                      artifacts : {<<OutDir \o AppZip>>}]}

VersionFileStates == {[exists |-> TRUE, size |-> BytesPerMb]}

InitVersions == InitWith(VersionConfigs)

PublishVersions == PublishLogin(VersionMakeResultLists, VersionFileStates)

NextVersions == PublishVersions \/ Settle

SpecVersions == InitVersions /\ [][NextVersions]_vars

----------------------------------------------------------------------------
(* Runs of one make-result of version 1.0.0 with two artifacts: app.zip and either     *)
(* manifest-releases or RELEASES, files of 25 MiB or 1 MiB, chunks of 10 MiB (set or   *)
(* by default), channel stable or none                                                 *)

ManifestReleases ==
    <<"m","a","n","i","f","e","s","t","-","r","e","l","e","a","s","e","s">>

ScenarioConfigs == ConfigsWith({Undefined, Stable}, {{}, {DefaultChunkSizeMb}})

ScenarioMakeResultLists ==
    {<<[packageJSON |-> [version |-> V100], platform |-> "win32",
        artifacts |-> <<OutDir \o AppZip, OutDir \o other>>]>> :
        other \in {ManifestReleases, ReleasesFile}}

ScenarioFileStates == [exists : {TRUE}, size : {25 * BytesPerMb, BytesPerMb}]

InitScenario == InitWith(ScenarioConfigs)

PublishScenario == PublishLogin(ScenarioMakeResultLists, ScenarioFileStates)

NextScenario == PublishScenario \/ Settle

SpecScenario == InitScenario /\ [][NextScenario]_vars

----------------------------------------------------------------------------
(* Runs of one or two make-results that keep the bodies GET /releases answered with:   *)
(* versions 1.0.0 and 1.0.0-beta, channel beta or none, one artifact of one chunk      *)

ReleaseConfigs == ConfigsWith({Undefined, Beta}, {{1}})

\* one make-result with app.zip, or one with no artifact and then one with app.zip
ReleaseMakeResultLists ==
    UNION {LET mr(arts) == [packageJSON |-> [version |-> v], platform |-> "win32",
                            artifacts |-> arts]
           IN  {<<mr(<<OutDir \o AppZip>>)>>, <<mr(<<>>), mr(<<OutDir \o AppZip>>)>>} :
           v \in VersionStrings}

ReleaseFileStates == {[exists |-> TRUE, size |-> BytesPerMb]}

InitReleases == InitWith(ReleaseConfigs)

PublishReleases == PublishLogin(ReleaseMakeResultLists, ReleaseFileStates)

NextReleases ==
    \/ PublishReleases
    \/ PublishMissingConfig
    \/ LoginFails
    \/ LoginReturns
    \/ ListFails
    \/ ListReturnsKeeping(TRUE)
    \/ CreateSettles
    \/ ChunkSucceeds
    \/ ChunkFails

SpecReleases == InitReleases /\ [][NextReleases]_vars

----------------------------------------------------------------------------
(* Runs of one make-result with chunkSizeInMb 0, 1 or -1: one or two artifacts, files *)
(* empty, of one byte, or of one MiB and a byte                                        *)

ZeroChunkConfigs == ConfigsWith({Rc}, {{0}, {1}, {0 - 1}})

ZeroChunkMakeResultLists ==
    {<<[packageJSON |-> [version |-> V100], platform |-> "win32", artifacts |-> arts]>> :
        arts \in {<<OutDir \o AppZip>>, <<OutDir \o AppZip, OutDir \o AppExe>>}}

ZeroChunkFileStates == [exists : {TRUE}, size : {0, 1, BytesPerMb + 1}]

InitZeroChunk == InitWith(ZeroChunkConfigs)

PublishZeroChunk == PublishLogin(ZeroChunkMakeResultLists, ZeroChunkFileStates)

NextZeroChunk == PublishZeroChunk \/ Settle

SpecZeroChunk == InitZeroChunk /\ [][NextZeroChunk]_vars

----------------------------------------------------------------------------
(* Runs of one make-result whose artifacts may share a base name or carry the reserved  *)
(* name or one close to it: out/app.zip, out/app.exe, alt/app.zip, out/RELEASES,        *)
(* out/Releases/ and out/RÉLEASES, files of two chunks                                 *)

AltDir == <<"a","l","t","/">>

ReleasesDir == <<"R","e","l","e","a","s","e","s","/">>

AccentedReleases == <<"R","É","L","E","A","S","E","S">>

NameConfigs == ConfigsWith({Rc}, {{1}})

NameMakeResultLists ==
    {<<mr>> : mr \in MakeResultsOf({V100},
                                   {OutDir \o AppZip, OutDir \o AppExe, AltDir \o AppZip,
                                    OutDir \o ReleasesFile, OutDir \o ReleasesDir,
                                    OutDir \o AccentedReleases},
                                   MaxArtifacts)}

NameFileStates == {[exists |-> TRUE, size |-> BytesPerMb + 1]}

InitNames == InitWith(NameConfigs)

PublishNames == PublishLogin(NameMakeResultLists, NameFileStates)

NextNames == PublishNames \/ Settle

SpecNames == InitNames /\ [][NextNames]_vars

----------------------------------------------------------------------------
(* Properties *)

\* The chunk size in bytes the configuration asks for.
ConfiguredChunkBytes ==
    (IF config.chunkSizeInMb = {} THEN 10 ELSE CHOOSE n \in config.chunkSizeInMb : TRUE)
        * 1048576

\* ceil(s / c), as the least n with n * c >= s
CeilOf(s, c) == CHOOSE n \in 0..(s \div c + 1) : n * c >= s /\ (n = 0 \/ (n - 1) * c < s)

\* The uploadAsset call of task t has a file to send: the artifact was neither skipped nor
\* unreadable.
Uploading(t) == t.st \in {"posting", "succeeded", "failed"}

\* C1: for a file of S > 0 bytes and chunks of C bytes, every chunk POST carries
\* totalChunks = ceil(S/C) and C bytes, but the last chunk, which carries S - C*(ceil(S/C)-1)
\* bytes; never more than ceil(S/C) POSTs are issued, and an upload that ends with no POST
\* failed has issued exactly ceil(S/C).
C1_ChunkCountAndSizes ==
    \A m \in DOMAIN tasks : \A j \in DOMAIN tasks[m] :
        LET t == tasks[m][j]
            S == fs[t.path].size
            C == ConfiguredChunkBytes
            n == CeilOf(S, C)
        IN  (Uploading(t) /\ S > 0) =>
                /\ Len(t.sent) <= n
                /\ t.st = "succeeded" => Len(t.sent) = n
                /\ \A k \in 1..Len(t.sent) :
                    /\ t.sent[k].totalChunks = Decimal(n)
                    /\ t.sent[k].bytes = (IF k < n THEN C ELSE S - C * (n - 1))

\* C1 witness: an upload of three chunks has ended with no failure, its last chunk shorter
\* than the others.
C1_Witness ==
    \E m \in DOMAIN tasks : \E j \in DOMAIN tasks[m] :
        /\ tasks[m][j].st = "succeeded"
        /\ Len(tasks[m][j].sent) = 3
        /\ tasks[m][j].sent[3].bytes < tasks[m][j].sent[2].bytes

\* C2: within one artifact the chunk POSTs carry currentChunk 1, 2, 3, ... in the order
\* sent; at most one is in flight, it is the last one sent, and every earlier one has
\* settled.
C2_ChunksInOrderOneInFlight ==
    \A m \in DOMAIN tasks : \A j \in DOMAIN tasks[m] :
        LET t == tasks[m][j]
        IN  /\ \A k \in 1..Len(t.sent) : t.sent[k].currentChunk = Decimal(k)
            /\ Cardinality(t.inflight) <= 1
            /\ t.inflight \subseteq {Len(t.sent)}
            /\ Len(t.outcomes) = Len(t.sent) - Cardinality(t.inflight)

\* C2 witness: two artifacts of one make-result upload at once, one of them at its second
\* chunk.
C2_Witness ==
    \E m \in DOMAIN tasks : \E j, h \in DOMAIN tasks[m] :
        /\ j /= h
        /\ tasks[m][j].inflight = {2}
        /\ tasks[m][h].inflight /= {}

\* The index of the first POST of task t that failed, 0 if none did.
FirstFailure(t) ==
    IF \E k \in 1..Len(t.outcomes) : ~t.outcomes[k]
    THEN Min({k \in 1..Len(t.outcomes) : ~t.outcomes[k]})
    ELSE 0

\* C3: once the POST of a chunk of an artifact has failed, the artifact is reported failed
\* (once), the failed chunk is the last POST of that artifact, and its siblings are left
\* alone: a sibling is failed only by a failed POST of its own, is complete only with all
\* its chunks sent, and otherwise still has its POST in flight.
C3_FailureStopsOnlyItsArtifact ==
    \A m \in DOMAIN tasks : \A j \in DOMAIN tasks[m] :
        LET t == tasks[m][j]
            f == FirstFailure(t)
        IN  /\ f > 0 => /\ t.st = "failed"
                        /\ Len(t.sent) = f
                        /\ t.inflight = {}
                        /\ t.reported = 1
            /\ f = 0 /\ Uploading(t) =>
                   \/ t.st = "posting" /\ Cardinality(t.inflight) = 1
                   \/ t.st = "succeeded" /\ t.totalChunks = Finite(Len(t.sent))

\* C3 witness: the first chunk of a two-chunk artifact failed and its sibling has sent both
\* its chunks and succeeded.
C3_Witness ==
    \E m \in DOMAIN tasks : \E j, h \in DOMAIN tasks[m] :
        /\ j /= h
        /\ tasks[m][j].st = "failed"
        /\ tasks[m][j].totalChunks = Finite(2)
        /\ Len(tasks[m][j].sent) = 1
        /\ tasks[m][h].st = "succeeded"
        /\ Len(tasks[m][h].sent) = 2

\* Task t is an artifact whose name and platform are both those of an asset of the release
\* resolved for make-result m.
ListedInRelease(m, t) ==
    \E r \in existingRelease[m] : \E a \in 1..Len(r.assets) :
        r.assets[a].name = t.fileName /\ r.assets[a].platform = makeResults[m].platform

\* C4: an artifact listed, by name and platform, in the release resolved for its
\* make-result is never uploaded and counts once in the progress.
C4_ListedAssetSkipped ==
    \A m \in DOMAIN tasks : \A j \in DOMAIN tasks[m] :
        ListedInRelease(m, tasks[m][j]) =>
            /\ tasks[m][j].sent = <<>>
            /\ tasks[m][j].reported = 1

\* C4 witness: an artifact is skipped as the second asset listed, while its sibling uploads.
C4_Witness ==
    \E m \in DOMAIN tasks : \E j, h \in DOMAIN tasks[m] :
        /\ ListedInRelease(m, tasks[m][j])
        /\ \E r \in existingRelease[m] : Len(r.assets) = 2
        /\ tasks[m][j].st = "skipped"
        /\ tasks[m][h].st = "posting"

\* The number of artifacts of make-result m the filter keeps.
NonFiltered(m) ==
    Cardinality({a \in 1..Len(makeResults[m].artifacts) :
                    ToLowerCase(Basename(makeResults[m].artifacts[a])) /= ReservedName})

\* C5: in every make-result the counter is the number of artifacts that have completed
\* (uploaded, failed or skipped), each of them has reported once, and the status lines
\* are "Uploading artifact (k/n)" for k = 1, 2, ... up to that number, in order.
C5_ProgressCountsEachCompletionOnce ==
    \A m \in DOMAIN tasks :
        LET done == {j \in DOMAIN tasks[m] : Completed(tasks[m][j])}
        IN  /\ Len(tasks[m]) \in {0, NonFiltered(m)}
            /\ uploadedCount[m] = Cardinality(done)
            /\ Len(statusLines[m]) = Cardinality(done)
            /\ \A k \in 1..Len(statusLines[m]) :
                   statusLines[m][k] = StatusLine(k, NonFiltered(m))
            /\ \A j \in DOMAIN tasks[m] :
                   tasks[m][j].reported = (IF j \in done THEN 1 ELSE 0)

\* C5 witness: two artifacts uploading at once have both completed, one failed and one
\* uploaded in two chunks, and the last status line is (2/2).
C5_Witness ==
    \E m \in DOMAIN tasks : \E j, h \in DOMAIN tasks[m] :
        /\ tasks[m][j].st = "failed"
        /\ tasks[m][h].st = "succeeded"
        /\ Len(tasks[m][h].sent) = 2
        /\ Len(statusLines[m]) = 2
        /\ statusLines[m][2] = StatusLine(2, 2)

\* A call for make-result m has been issued: GET /releases, POST /releases or a chunk POST.
CallIssuedFor(m) ==
    \/ listReqs[m] /= <<>>
    \/ createReqs[m] /= <<>>
    \/ \E j \in DOMAIN tasks[m] : tasks[m][j].sent /= <<>>

\* No call past the login has been issued for any make-result.
NoCallPastLogin == \A m \in DOMAIN tasks : ~CallIssuedFor(m)

\* C6: whenever a call (release list, release create or chunk POST) has been issued for a
\* make-result, every artifact of every earlier make-result has been started and none of
\* their uploads is still unsettled: none has a POST in flight.
C6_MakeResultsOneAfterAnother ==
    \A m, n \in DOMAIN tasks :
        (m < n /\ CallIssuedFor(n)) =>
            /\ Len(tasks[m]) = NonFiltered(m)
            /\ \A j \in DOMAIN tasks[m] :
                   /\ tasks[m][j].inflight = {}
                   /\ tasks[m][j].st \notin {"new", "posting"}

\* C6 witness: the second make-result is at its release create after the two uploads of
\* the first, started together, ended one failed and one complete.
C6_Witness ==
    /\ cur = 2
    /\ createReqs[2] /= <<>>
    /\ Len(tasks[1]) = 2
    /\ tasks[1][1].st = "failed"
    /\ tasks[1][2].st = "succeeded"

\* One of the three required options is missing or empty.
RequiredOptionMissing ==
    \E f \in {"baseUrl", "username", "password"} : config[f] \in {Undefined, <<>>}

\* C7: with baseUrl, username or password missing or empty, no call is ever issued, login
\* included, and publish ends only having logged the configuration error.
C7_MissingConfigNoCall ==
    RequiredOptionMissing =>
        /\ loginReqs = <<>>
        /\ NoCallPastLogin
        /\ makeResults = <<>> /\ tasks = <<>>
        /\ pc \in {"init", "done"}
        /\ pc = "done" => logged = {MissingConfigError}

\* C7 witness: publish has ended on a configuration whose only flaw is an empty username.
C7_Witness ==
    /\ pc = "done"
    /\ config.username = <<>>
    /\ config.baseUrl \notin {Undefined, <<>>}
    /\ config.password \notin {Undefined, <<>>}
    /\ MissingConfigError \in logged

\* C8: once the login call has been rejected, publish has ended with the credentials error
\* logged, exactly one login call was issued, and no release list, release create or chunk
\* POST is issued for any make-result.
C8_LoginFailureAborts ==
    loginResponse = "rejected" =>
        /\ pc = "done"
        /\ Len(loginReqs) = 1
        /\ NoCallPastLogin
        /\ logged = {InvalidCredentialsError}

\* C8 witness: the login was rejected in a run that had a make-result with an artifact to
\* upload.
C8_Witness ==
    /\ loginResponse = "rejected"
    /\ \E m \in DOMAIN makeResults : NonFiltered(m) > 0

\* C9: once the login call has returned a body with no token (a null body, or a body with
\* no jwt field), no release list, release create or chunk POST is issued.
C9_NoTokenAborts ==
    loginResponse \in {"null", "nojwt"} => NoCallPastLogin

\* C9, what the program does: after a login body with no jwt field the run goes on, and a
\* chunk is posted with an undefined Authorization header.
C9_RunGoesOnWithoutToken ==
    /\ loginResponse = "nojwt"
    /\ jwt = Undefined
    /\ \E m \in DOMAIN tasks :
        /\ listReqs[m] /= <<>>
        /\ \E j \in DOMAIN tasks[m] :
            /\ tasks[m][j].sent /= <<>>
            /\ tasks[m][j].sent[1].auth = Undefined

\* C10: once the failure of the release create of a make-result is logged, every
\* non-filtered artifact of that make-result has been started, each readable non-empty one
\* with a chunk POST issued; and once all of them have completed, the next make-result has
\* its release list issued, or publish has ended after the last.
C10_CreateFailureSwallowed ==
    \A m \in DOMAIN tasks :
        CreateFailedError(m) \in logged =>
            /\ createReqs[m] /= <<>>
            /\ Len(tasks[m]) = NonFiltered(m)
            /\ \A j \in DOMAIN tasks[m] :
                   /\ tasks[m][j].st /= "new"
                   /\ (fs[tasks[m][j].path].exists /\ fs[tasks[m][j].path].size > 0)
                          => tasks[m][j].sent /= <<>>
            /\ (\A j \in DOMAIN tasks[m] : Completed(tasks[m][j])) =>
                   IF m < Len(makeResults) THEN listReqs[m + 1] /= <<>> ELSE pc = "done"

\* C10 witness: the release create of the first make-result failed, its artifact was
\* uploaded in two chunks, and the second make-result has its release list issued.
C10_Witness ==
    /\ Len(makeResults) = 2
    /\ CreateFailedError(1) \in logged
    /\ \E j \in DOMAIN tasks[1] :
        tasks[1][j].st = "succeeded" /\ Len(tasks[1][j].sent) = 2
    /\ listReqs[2] /= <<>>

\* The login call returned a body with a token.
Authenticated == loginResponse = "jwt"

\* C11: in a run with its configuration complete and its login answered with a token,
\* whatever else fails, publish ends only after every non-filtered artifact of every
\* make-result has been attempted: each has been started and none is left unfinished.
C11_OnlyTwoFatalCases ==
    (Authenticated /\ pc = "done") =>
        \A m \in DOMAIN tasks :
            /\ Len(tasks[m]) = NonFiltered(m)
            /\ \A j \in DOMAIN tasks[m] : Completed(tasks[m][j])

\* C11, what the program does: the release list call of an authenticated run was rejected
\* and publish has ended with the artifact of the make-result never attempted.
C11_ListFailureEndsRun ==
    /\ Authenticated
    /\ pc = "done"
    /\ \E m \in DOMAIN tasks :
        /\ listReqs[m] /= <<>>
        /\ NonFiltered(m) > 0
        /\ tasks[m] = <<>>
        /\ createReqs[m] = <<>>
    /\ InvalidCredentialsError \in logged

\* The channel names among beta, alpha and rc that version string v contains.
PrereleaseNamesIn(v) == {c \in {Beta, Alpha, Rc} : Occurrences(v, c) /= {}}

\* The channels make-result m has used so far: in its release lookup, in its release
\* create and in the path of its chunk POSTs.
ChannelsUsed(m) ==
    {channel[m]} \cup {createReqs[m][k].channel : k \in 1..Len(createReqs[m])}
                 \cup UNION {{tasks[m][j].sent[k].channel : k \in 1..Len(tasks[m][j].sent)} :
                                j \in DOMAIN tasks[m]}

\* C12: with no channel configured, a make-result whose version contains exactly one of
\* beta, alpha, rc uses that channel for lookup, create and upload path, and one whose
\* version contains no channel name uses "stable".
C12_DerivedChannel ==
    \A m \in DOMAIN tasks :
        (config.channel = Undefined /\ listReqs[m] /= <<>>) =>
            LET v == makeResults[m].packageJSON.version
            IN  /\ \A c \in PrereleaseNamesIn(v) :
                       PrereleaseNamesIn(v) = {c} => ChannelsUsed(m) = {c}
                /\ (PrereleaseNamesIn(v) = {} /\ Occurrences(v, Stable) = {})
                       => ChannelsUsed(m) = {Stable}

\* C12, what the program does: with no channel configured and version 1.0.0, the release
\* is created and a chunk is posted with the channel undefined.
C12_UndefinedChannelUsed ==
    \E m \in DOMAIN tasks :
        /\ config.channel = Undefined
        /\ makeResults[m].packageJSON.version = V100
        /\ channel[m] = Undefined
        /\ createReqs[m] /= <<>> /\ createReqs[m][1].channel = Undefined
        /\ \E j \in DOMAIN tasks[m] :
            tasks[m][j].sent /= <<>> /\ tasks[m][j].sent[1].channel = Undefined

\* Version string out is version string v with its first occurrence of pat taken out, or
\* v itself when pat does not occur in v.
FirstOccurrenceRemoved(v, pat, out) ==
    LET Starts == 1..(Len(v) - Len(pat) + 1)
        At(p)  == \A k \in 1..Len(pat) : v[p + k - 1] = pat[k]
    IN  IF \E p \in Starts : At(p)
        THEN \E p \in Starts :
                /\ At(p)
                /\ \A q \in 1..(p - 1) : ~At(q)
                /\ out = [k \in 1..(Len(v) - Len(pat)) |->
                              IF k < p THEN v[k] ELSE v[k + Len(pat)]]
        ELSE out = v

\* The version make-result m was given, and whether it has derived its channel and version.
GivenVersion(m) == makeResults[m].packageJSON.version
Derived(m) == listReqs[m] /= <<>>

\* C13 as stated: with channel stable the derived version is the version string unchanged,
\* and with any other channel it is the version string less one occurrence of "-<channel>".
C13_StableLeftUnchanged ==
    \A m \in DOMAIN tasks :
        (Derived(m) /\ channel[m] /= Undefined) =>
            IF channel[m] = Stable
            THEN version[m] = GivenVersion(m)
            ELSE FirstOccurrenceRemoved(GivenVersion(m), <<"-">> \o channel[m], version[m])

\* C13, amended: for each of the four channels, stable included, the derived version is the
\* version string less its first literal occurrence of "-<channel>", and the version
\* string unchanged when it has none; 1.2.3-beta with beta and 1.2.3 with stable give 1.2.3.
C13_FirstSuffixRemoved ==
    \A m \in DOMAIN tasks :
        (Derived(m) /\ channel[m] /= Undefined) =>
            /\ channel[m] \in {Stable, Beta, Alpha, Rc}
            /\ FirstOccurrenceRemoved(GivenVersion(m), <<"-">> \o channel[m], version[m])
            /\ (GivenVersion(m) = V123 \o <<"-">> \o Beta /\ channel[m] = Beta)
                   => version[m] = V123
            /\ (GivenVersion(m) = V123 /\ channel[m] = Stable) => version[m] = V123

\* C13 witness: channel stable and version 1.2.3-stable-stable have given 1.2.3-stable.
C13_Witness ==
    \E m \in DOMAIN tasks :
        /\ Derived(m)
        /\ channel[m] = Stable
        /\ GivenVersion(m) = V123 \o <<"-">> \o Stable \o <<"-">> \o Stable
        /\ version[m] = V123 \o <<"-">> \o Stable

\* The letters of the reserved name, in either case.
ReservedLetters ==
    <<{"r","R"}, {"e","E"}, {"l","L"}, {"e","E"}, {"a","A"}, {"s","S"}, {"e","E"}, {"s","S"}>>

\* The last component of path, any "/" that ends the path left aside, is the reserved
\* name, whatever the case of its letters.
IsReservedPath(path) ==
    LET r == Len(ReservedLetters)
    IN  \E n \in r..Len(path) :
            /\ \A q \in (n + 1)..Len(path) : path[q] = "/"
            /\ n > r => path[n - r] = "/"
            /\ \A k \in 1..r : path[n - r + k] \in ReservedLetters[k]

\* The number of artifacts of make-result m that do not carry the reserved name.
Distributable(m) ==
    Cardinality({a \in 1..Len(makeResults[m].artifacts) :
                    ~IsReservedPath(makeResults[m].artifacts[a])})

\* C14: an artifact whose base name is the reserved name in any case is no asset: no upload
\* is started and no chunk is posted for it, and neither the progress counter nor the
\* denominator of the status lines counts it.
C14_ReservedNameNeverUploaded ==
    \A m \in DOMAIN tasks :
        /\ \A j \in DOMAIN tasks[m] :
               /\ ~IsReservedPath(tasks[m][j].path)
               /\ \A k \in 1..Len(tasks[m][j].sent) :
                      ~IsReservedPath(tasks[m][j].sent[k].fileName)
        /\ Len(tasks[m]) <= Distributable(m)
        /\ uploadedCount[m] <= Distributable(m)
        /\ \A k \in 1..Len(statusLines[m]) :
               statusLines[m][k] = StatusLine(k, Distributable(m))

\* C14 witness: a make-result of Releases/ and app.zip has ended with app.zip uploaded and
\* the one status line (1/1).
C14_Witness ==
    \E m \in DOMAIN tasks :
        /\ makeResults[m].artifacts = <<OutDir \o ReleasesDir, OutDir \o AppZip>>
        /\ pc = "done"
        /\ Len(tasks[m]) = 1
        /\ tasks[m][1].st = "succeeded" /\ tasks[m][1].sent /= <<>>
        /\ uploadedCount[m] = 1
        /\ statusLines[m] = <<StatusLine(1, 1)>>

\* Every release create and every chunk POST issued so far carried header value h.
CreateAndChunkCallsCarry(h) ==
    \A m \in DOMAIN tasks :
        /\ \A k \in 1..Len(createReqs[m]) : createReqs[m][k].auth = h
        /\ \A j \in DOMAIN tasks[m] : \A k \in 1..Len(tasks[m][j].sent) :
               tasks[m][j].sent[k].auth = h

\* Every release list call issued so far carried header value h.
ListCallsCarry(h) ==
    \A m \in DOMAIN tasks : \A k \in 1..Len(listReqs[m]) : listReqs[m][k].auth = h

\* At most one login call was issued, exactly one if any other call was, and the token is
\* the one the login body held.
OneLoginOneToken ==
    /\ Len(loginReqs) <= 1
    /\ ~NoCallPastLogin => Len(loginReqs) = 1
    /\ loginResponse = "jwt" => jwt = Token
    /\ loginResponse \in {"none", "rejected", "null", "nojwt"} => jwt = Undefined

\* C15 as stated: one login call per run, and every call after it, the release list
\* included, carries the token as its authorization header.
C15_TokenOnEveryCall ==
    /\ OneLoginOneToken
    /\ CreateAndChunkCallsCarry(jwt)
    /\ ListCallsCarry(jwt)

\* C15, amended: one login call per run; every release create and every chunk POST carries
\* as its authorization header the jwt of the login body, which never changes (every
\* header sent earlier still equals it); the release list call carries no such header.
C15_TokenOnCreateAndChunks ==
    /\ OneLoginOneToken
    /\ CreateAndChunkCallsCarry(jwt)
    /\ ListCallsCarry(NoHeader)

\* C15 witness: after a login that returned a token, a release list, a release create and
\* the second chunk of an artifact have been issued.
C15_Witness ==
    /\ loginResponse = "jwt"
    /\ \E m \in DOMAIN tasks :
        /\ listReqs[m] /= <<>>
        /\ createReqs[m] /= <<>> /\ createReqs[m][1].auth = Token
        /\ \E j \in DOMAIN tasks[m] :
            Len(tasks[m][j].sent) = 2 /\ tasks[m][j].sent[2].auth = Token

\* The run is of one make-result with app.zip of 25 MiB and a second artifact named other,
\* chunks of 10 MiB, and the release lookup of the make-result found no release.
ScenarioOf(other) ==
    /\ Len(makeResults) = 1
    /\ makeResults[1].artifacts = <<OutDir \o AppZip, OutDir \o other>>
    /\ makeResults[1].packageJSON.version = V100
    /\ fs[OutDir \o AppZip].size = 25 * 1048576
    /\ ConfiguredChunkBytes = 10 * 1048576
    /\ existingRelease[1] = {}

\* Every call of the run has succeeded and publish has ended.
EveryCallSucceeded ==
    /\ pc = "done"
    /\ loginResponse = "jwt"
    /\ \A l \in logged : l.level = "success"
    /\ \A j \in DOMAIN tasks[1] :
           tasks[1][j].st = "succeeded" /\ \A k \in 1..Len(tasks[1][j].outcomes) : tasks[1][j].outcomes[k]

\* The calls of the scenario: one login, one release list, one release create, and chunk
\* POSTs for app.zip alone, of 10, 10 and 5 MiB numbered 1, 2, 3 of 3; each kind of call
\* only after the one before it; and the last status line is "Uploading artifact (1/1)".
ScenarioCalls ==
    /\ Len(loginReqs) = 1 /\ Len(listReqs[1]) = 1 /\ Len(createReqs[1]) = 1
    /\ Len(tasks[1]) = 1
    /\ tasks[1][1].fileName = AppZip
    /\ [k \in 1..Len(tasks[1][1].sent) |-> tasks[1][1].sent[k].bytes]
           = <<10 * 1048576, 10 * 1048576, 5 * 1048576>>
    /\ [k \in 1..Len(tasks[1][1].sent) |-> tasks[1][1].sent[k].currentChunk]
           = <<<<"1">>, <<"2">>, <<"3">>>>
    /\ \A k \in 1..Len(tasks[1][1].sent) :
           /\ tasks[1][1].sent[k].totalChunks = <<"3">>
           /\ tasks[1][1].sent[k].fileName = AppZip
    /\ statusLines[1] /= <<>>
    /\ statusLines[1][Len(statusLines[1])] =
           <<"U","p","l","o","a","d","i","n","g"," ","a","r","t","i","f","a","c","t"," ",
             "(","1","/","1",")">>

\* In every run the kinds of call come in order: the release list after the login has
\* returned, the release create after the one release list, a chunk POST after the
\* release create has settled where the lookup found no release.
CallsInOrder ==
    \A m \in DOMAIN tasks :
        /\ listReqs[m] /= <<>> => (Len(loginReqs) = 1 /\ loginResponse \in {"jwt", "nojwt"})
        /\ createReqs[m] /= <<>> => Len(listReqs[m]) = 1
        /\ (tasks[m] /= <<>> /\ existingRelease[m] = {}) =>
               /\ Len(createReqs[m]) = 1
               /\ CreatedSuccess(m) \in logged \/ CreateFailedError(m) \in logged

\* C16 as stated: with app.zip (25 MiB) and manifest-releases as the artifacts, no matching
\* release, chunks of 10 MiB and every call succeeding, the calls are one login, one release
\* list, one release create and three chunk POSTs for app.zip, none for manifest-releases,
\* and the last status line is (1/1).
C16_ScenarioManifestReleases ==
    /\ CallsInOrder
    /\ (ScenarioOf(ManifestReleases) /\ EveryCallSucceeded) => ScenarioCalls

\* C16, amended: the same with the second artifact named RELEASES, the reserved name.
C16_ScenarioReleasesFile ==
    /\ CallsInOrder
    /\ (ScenarioOf(ReleasesFile) /\ EveryCallSucceeded) => ScenarioCalls

\* C16 witness: the run of app.zip (25 MiB) and RELEASES has ended with every call
\* succeeded and three chunks sent.
C16_Witness ==
    /\ ScenarioOf(ReleasesFile)
    /\ EveryCallSucceeded
    /\ Len(tasks[1][1].sent) = 3

\* Some release of list body carries both the version and the channel make-result m derived.
MatchListed(m, body) ==
    \E k \in 1..Len(body) : body[k].version = version[m] /\ body[k].channel = channel[m]

\* C17: every make-result the loop has reached has fetched the release list exactly once
\* and no other has fetched it; a release create is issued for a make-result if and only
\* if its list was answered and no listed release has both its derived version and its
\* derived channel; never more than one create is issued per make-result.
C17_CreateIffNoMatch ==
    \A m \in DOMAIN tasks :
        /\ Len(listReqs[m]) = (IF m <= cur THEN 1 ELSE 0)
        /\ Len(listed[m]) <= Len(listReqs[m])
        /\ Len(createReqs[m]) <= 1
        /\ createReqs[m] /= <<>> <=> (listed[m] /= <<>> /\ ~MatchListed(m, listed[m][1]))
        /\ \A k \in 1..Len(createReqs[m]) :
               createReqs[m][k].version = version[m] /\ createReqs[m][k].channel = channel[m]

\* C17 witness: the first make-result created its release after a list of two releases each
\* matching on one field only, and the second uploads with no create after a list whose
\* second release matches on both.
C17_Witness ==
    /\ Len(makeResults) = 2
    /\ channel[1] = Beta /\ version[1] = V100
    /\ listed[1] = <<<<[version |-> V100, channel |-> Stable, assets |-> <<>>],
                       [version |-> V101, channel |-> Beta, assets |-> <<>>]>>>>
    /\ Len(createReqs[1]) = 1
    /\ listed[2] = <<<<[version |-> V101, channel |-> Beta, assets |-> <<>>],
                       [version |-> V100, channel |-> Beta, assets |-> <<>>]>>>>
    /\ createReqs[2] = <<>>
    /\ tasks[2] /= <<>> /\ tasks[2][1].sent /= <<>>

\* C18: an artifact whose file is empty, once its upload has been started, has no chunk
\* POST; unless the release lists it already, its upload has returned true; and it has
\* reported to the progress counter exactly once.
C18_EmptyFileUploadsNothing ==
    \A m \in DOMAIN tasks : \A j \in DOMAIN tasks[m] :
        LET t == tasks[m][j]
        IN  (fs[t.path].exists /\ fs[t.path].size = 0) =>
                /\ t.sent = <<>>
                /\ t.reported = 1
                /\ uploadedCount[m] >= 1
                /\ IF ListedInRelease(m, t) THEN t.st = "skipped" ELSE t.st = "succeeded"

\* C18 witness: an empty artifact has been uploaded with no chunk and counted as (1/2)
\* while its sibling still posts.
C18_Witness ==
    \E m \in DOMAIN tasks : \E j, h \in DOMAIN tasks[m] :
        /\ fs[tasks[m][j].path].exists /\ fs[tasks[m][j].path].size = 0
        /\ tasks[m][j].st = "succeeded"
        /\ tasks[m][h].st = "posting"
        /\ statusLines[m] = <<StatusLine(1, 2)>>

\* C19, as a bound a finite run refutes: publish ends because its work is bounded by its
\* input and no failure leaves its try block: an upload never has more chunk POSTs than
\* its file has bytes, and once every chunk POST issued has settled, every artifact started
\* has ended and publish with them.
C19_PublishAlwaysEnds ==
    \A m \in DOMAIN tasks :
        /\ \A j \in DOMAIN tasks[m] : Len(tasks[m][j].sent) <= fs[tasks[m][j].path].size
        /\ (tasks[m] /= <<>> /\ \A j \in DOMAIN tasks[m] : tasks[m][j].inflight = {}) =>
               (pc = "done" \/ cur > m)

\* C19, what the program does: with chunkSizeInMb 0 the chunk count of a one-byte file is
\* Infinity, and after every POST that succeeds the upload posts another empty chunk.
C19_EndlessUpload ==
    \E m \in DOMAIN tasks : \E j \in DOMAIN tasks[m] :
        /\ config.chunkSizeInMb = {0}
        /\ fs[tasks[m][j].path].size = 1
        /\ Len(tasks[m][j].sent) = MaxEndlessPosts
        /\ \A k \in 1..Len(tasks[m][j].outcomes) : tasks[m][j].outcomes[k]
        /\ tasks[m][j].st = "posting"
        /\ tasks[m][j].sent[MaxEndlessPosts].totalChunks = <<"I","n","f","i","n","i","t","y">>
        /\ tasks[m][j].sent[MaxEndlessPosts].bytes = 0
        /\ pc = "upload"

\* Paths p and q end in the same file name, any "/" that ends them left aside.
SameBaseName(p, q) ==
    \E ep \in 1..Len(p) : \E eq \in 1..Len(q) : \E n \in 1..ep :
        /\ \A k \in (ep + 1)..Len(p) : p[k] = "/"
        /\ \A k \in (eq + 1)..Len(q) : q[k] = "/"
        /\ n <= eq
        /\ \A k \in 0..(n - 1) : p[ep - k] = q[eq - k] /\ p[ep - k] /= "/"
        /\ ep > n => p[ep - n] = "/"
        /\ eq > n => q[eq - n] = "/"

\* The base names of the non-filtered artifacts of make-result m are pairwise distinct.
DistinctBaseNames(m) ==
    \A a, b \in 1..Len(makeResults[m].artifacts) :
        (a /= b /\ ~IsReservedPath(makeResults[m].artifacts[a])
                /\ ~IsReservedPath(makeResults[m].artifacts[b]))
            => ~SameBaseName(makeResults[m].artifacts[a], makeResults[m].artifacts[b])

\* The key under which the server files the chunk of request r.
KeyOf(r) == <<r.channel, r.version, r.platform, r.fileName>>

\* C20: in a make-result whose non-filtered artifacts have pairwise distinct base names,
\* all the chunk POSTs of one artifact go under one key, numbered 1, 2, ... in the order
\* sent with at most the last in flight, and no POST of another artifact of the
\* make-result goes under that key, however the uploads interleave.
C20_OneArtifactPerKey ==
    \A m \in DOMAIN tasks :
        DistinctBaseNames(m) =>
            \A j \in DOMAIN tasks[m] :
                LET t == tasks[m][j]
                IN  /\ \A k \in 1..Len(t.sent) :
                           /\ KeyOf(t.sent[k]) = KeyOf(t.sent[1])
                           /\ t.sent[k].currentChunk = Decimal(k)
                    /\ t.inflight \subseteq {Len(t.sent)}
                    /\ \A h \in DOMAIN tasks[m] : h /= j =>
                           \A k \in 1..Len(t.sent) : \A l \in 1..Len(tasks[m][h].sent) :
                               KeyOf(t.sent[k]) /= KeyOf(tasks[m][h].sent[l])

\* C20 witness: two artifacts of distinct names upload at once, one at its second chunk
\* after the other posted its first.
C20_Witness ==
    \E m \in DOMAIN tasks : \E j, h \in DOMAIN tasks[m] :
        /\ DistinctBaseNames(m)
        /\ j /= h
        /\ tasks[m][j].inflight = {2}
        /\ tasks[m][h].inflight = {1}
        /\ KeyOf(tasks[m][j].sent[2]) /= KeyOf(tasks[m][h].sent[1])

====
